---- MODULE Spec2Model ----
(***************************************************************************)
(* Model of the sentence-to-timestamp aligner of                            *)
(* src/video_functions/timestamp_mapper.py (class TimestampMapper) and of    *)
(* the pipeline driver that calls it, process_complete_video of             *)
(* src/video_functions/video_processor.py.                                  *)
(*                                                                          *)
(* Strings are sequences of one-character strings.  Times are integers in   *)
(* milliseconds; the word timeline's times lie on a 4 ms grid, so that      *)
(* start + (end - start) / 2 is an integer number of milliseconds and       *)
(* round(x, 2) (rounding to 10 ms) never meets a tie.  List indices are     *)
(* 0-based as in the source: word j of the source is word_data[j + 1].      *)
(***************************************************************************)
EXTENDS Integers, Sequences, FiniteSets, TLC

VARIABLES word_data, cleaned_sentences, pc, last_word_index, mapped_sentences,
          dir_exists, saved_file, result, raised, calls, first_call,
          stage, stage_log, options, summary,
          chunk_results, chunk_index, all_words, total_duration,
          chunk_info, transcription,
          transitions, sentences, detector_pc, page_index, pages,
          request_pc, use_auth, depth, attempts, auth_retries, response

vars == <<word_data, cleaned_sentences, pc, last_word_index, mapped_sentences,
          dir_exists, saved_file, result, raised, calls, first_call,
          stage, stage_log, options, summary,
          chunk_results, chunk_index, all_words, total_duration,
          chunk_info, transcription,
          transitions, sentences, detector_pc, page_index, pages,
          request_pc, use_auth, depth, attempts, auth_retries, response>>

\* the state of map_sentences_to_timestamps and of its caller's record
aligner_vars ==
  <<word_data, cleaned_sentences, pc, last_word_index, mapped_sentences,
    dir_exists, saved_file, result, raised, calls, first_call>>

\* the state of process_complete_video
pipeline_vars == <<stage, stage_log, options, summary>>

\* the state of AudioTranscriber.transcribe_chunks
transcriber_vars ==
  <<chunk_results, chunk_index, all_words, total_duration, chunk_info,
    transcription>>

\* the state of GPTPageDetector._apply_transitions_to_sentences
detector_vars == <<transitions, sentences, detector_pc, page_index, pages>>

\* the state of DiscourseForumExporter.make_request
exporter_vars ==
  <<request_pc, use_auth, depth, attempts, auth_retries, response>>

\* the collaborators of the aligner that are modelled on their own
collaborator_vars == <<transcriber_vars, detector_vars, exporter_vars>>

(***************************************************************************)
(* Bounds of the checked input families.                                    *)
(***************************************************************************)
MaxRichWords == 3
MaxRichTokens == 2
MaxDeepWords == 3
MaxDeepTokens == 5
MaxLongHead == 1
MaxLongTail == 1
MaxLongExtra == 1
MaxLongTokens == 3
MaxExactTokens == 5
MaxPhrase == 5
MinWordyTokens == 7
MaxWordyTokens == 9
MaxRepeatWords == 2
MaxFairWords == 2
MaxFairTokens == 2
MaxPipelineWords == 3
MaxPipelineTokens == 2
MaxChunks == 3
MaxChunkWords == 1
MaxPageSentences == 3
MaxTransitions == 2

\* the depth of nested calls at which the interpreter raises RecursionError
\* (sys.getrecursionlimit(), 1000 unless changed), scaled down
MaxRecursionDepth == 20

(***************************************************************************)
(* Program constants.                                                       *)
(***************************************************************************)
ProbeTokens == 5
ConfirmLookahead == 10
ConfirmWindow == 3
ConfirmThreshold == 3
EndLookahead == 10
FallbackSkip == 50
FallbackGap == 500
FallbackMinDuration == 3000
FallbackPerToken == 400

\* one hundredth of a second, the unit round(x, 2) rounds to
Hundredth == 10

\* the gap validate_timestamps reports as large: 30 s
LargeGap == 30000

None == "None"

\* the value None of an index variable
NoIndex == 0 - 1

\* a value that is absent (not yet returned, file not written) or present
Absent == [present |-> FALSE, value |-> <<>>]
Present(v) == [present |-> TRUE, value |-> v]

Min(a, b) == IF a <= b THEN a ELSE b
Max(a, b) == IF a >= b THEN a ELSE b

(***************************************************************************)
(* String primitives of the Python runtime used by the aligner.             *)
(***************************************************************************)
StripChars == {".", ",", "!", "?", ";", ":", "\""}

LowerChar(c) ==
  CASE c = "A" -> "a"
    [] c = "B" -> "b"
    [] c = "C" -> "c"
    [] OTHER -> c

\* str.lower()
Lower(s) == [p \in DOMAIN s |-> LowerChar(s[p])]

RECURSIVE LStrip(_)
LStrip(s) == IF s # <<>> /\ Head(s) \in StripChars THEN LStrip(Tail(s)) ELSE s

RECURSIVE RStrip(_)
RStrip(s) ==
  IF s # <<>> /\ s[Len(s)] \in StripChars
    THEN RStrip(SubSeq(s, 1, Len(s) - 1))
    ELSE s

\* str.strip('.,!?;:"')
Strip(s) == RStrip(LStrip(s))

\* str.split(): the maximal runs of non-blank characters, in order
RECURSIVE SplitFrom(_, _, _)
SplitFrom(s, p, cur) ==
  IF p > Len(s)
    THEN IF cur = <<>> THEN <<>> ELSE <<cur>>
    ELSE IF s[p] = " "
           THEN IF cur = <<>>
                  THEN SplitFrom(s, p + 1, <<>>)
                  ELSE <<cur>> \o SplitFrom(s, p + 1, <<>>)
           ELSE SplitFrom(s, p + 1, Append(cur, s[p]))

Split(s) == SplitFrom(s, 1, <<>>)

\* ' '.join(tokens)
RECURSIVE Join(_)
Join(tokens) ==
  IF tokens = <<>> THEN <<>>
  ELSE IF Len(tokens) = 1 THEN tokens[1]
  ELSE tokens[1] \o <<" ">> \o Join(Tail(tokens))

\* the Python substring test  sub in s
Contains(sub, s) ==
  \E p \in 0..(Len(s) - Len(sub)) : SubSeq(s, p + 1, p + Len(sub)) = sub

\* seq[lo:hi] of Python for 0 <= lo <= hi
Slice(seq, lo, hi) == SubSeq(seq, lo + 1, Min(hi, Len(seq)))

\* x in list
InList(x, list) == \E p \in DOMAIN list : list[p] = x

\* round(x, 2) of a time in milliseconds (a tie goes to the even hundredth)
Round2(x) ==
  LET q == x \div Hundredth
      r == x % Hundredth
  IN  IF 2 * r < Hundredth THEN Hundredth * q
      ELSE IF 2 * r > Hundredth THEN Hundredth * (q + 1)
      ELSE IF q % 2 = 0 THEN Hundredth * q ELSE Hundredth * (q + 1)

(***************************************************************************)
(* TimestampMapper._find_sentence_timestamps                                *)
(***************************************************************************)
\* word_info.get('word', '').lower().strip('.,!?;:"')
WordText(wd, j) == Strip(Lower(wd[j + 1].word))

\* ' '.join(sentence.split()[:5]).lower()
SearchText(sentence) == Lower(Join(Slice(Split(sentence), 0, ProbeTokens)))

\* sentence.lower().split()
TestWords(sentence) == Split(Lower(sentence))

\* if word_text and word_text in search_text
IsCandidate(sentence, wd, j) ==
  /\ WordText(wd, j) # <<>>
  /\ Contains(WordText(wd, j), SearchText(sentence))

\* ConfirmLoop looking ahead to the end of the timeline
RECURSIVE ConfirmLoop_NoLookahead(_, _, _, _, _)
ConfirmLoop_NoLookahead(sentence, wd, j, k, match_count) ==
  IF k >= Len(wd)
    THEN FALSE
    ELSE LET test_words == TestWords(sentence)
         IN  \E mc \in {IF /\ match_count < Len(test_words)
                           /\ InList(WordText(wd, k),
                                     Slice(test_words, match_count,
                                           match_count + ConfirmWindow))
                          THEN match_count + 1
                          ELSE match_count} :
               IF mc >= Min(ConfirmThreshold, Len(test_words))
                 THEN TRUE
                 ELSE ConfirmLoop_NoLookahead(sentence, wd, j, k + 1, mc)

\* the loop over k: TRUE iff match_count reaches min(3, len(test_words))
RECURSIVE ConfirmLoop(_, _, _, _, _)
ConfirmLoop(sentence, wd, j, k, match_count) ==
  IF k >= Min(j + ConfirmLookahead, Len(wd))
    THEN FALSE
    ELSE LET test_words == TestWords(sentence)
         IN  \E mc \in {IF /\ match_count < Len(test_words)
                           /\ InList(WordText(wd, k),
                                     Slice(test_words, match_count,
                                           match_count + ConfirmWindow))
                          THEN match_count + 1
                          ELSE match_count} :
               IF mc >= Min(ConfirmThreshold, Len(test_words))
                 THEN TRUE
                 ELSE ConfirmLoop(sentence, wd, j, k + 1, mc)

Confirms(sentence, wd, j) == ConfirmLoop(sentence, wd, j, j, 0)

\* EndLoop stopping only when all the sentence's words are consumed
RECURSIVE EndLoop_AllWords(_, _, _, _, _)
EndLoop_AllWords(n, wd, j, m, words_found) ==
  IF m >= Min(j + n + EndLookahead, Len(wd))
    THEN NoIndex
    ELSE IF words_found >= n
           THEN m
           ELSE EndLoop_AllWords(n, wd, j, m + 1, words_found + 1)

\* the loop over m: the index whose end time is taken, or None
RECURSIVE EndLoop(_, _, _, _, _)
EndLoop(n, wd, j, m, words_found) ==
  IF m >= Min(j + n + EndLookahead, Len(wd))
    THEN NoIndex
    ELSE IF 5 * words_found >= 4 * n
           THEN m
           ELSE EndLoop(n, wd, j, m + 1, words_found + 1)

\* MatchEnd returning the length of the interval as its end time
MatchEnd_Duration(sentence, wd, j) ==
  LET n == Len(Split(sentence))
      m == EndLoop(n, wd, j, j, 0)
  IN  IF m # NoIndex
        THEN [end_word |-> m, end_time |-> wd[m + 1].end - wd[j + 1].start,
              next_search_index |-> m + 1]
        ELSE [end_word |-> Min(j + n, Len(wd) - 1),
              end_time |-> wd[Min(j + n, Len(wd) - 1) + 1].end
                             - wd[j + 1].start,
              next_search_index |-> j + n]

\* MatchEnd with the cursor left on the word used for the end time
MatchEnd_CursorOnEndWord(sentence, wd, j) ==
  LET n == Len(Split(sentence))
      m == EndLoop(n, wd, j, j, 0)
  IN  IF m # NoIndex
        THEN [end_word |-> m, end_time |-> wd[m + 1].end,
              next_search_index |-> m]
        ELSE [end_word |-> Min(j + n, Len(wd) - 1),
              end_time |-> wd[Min(j + n, Len(wd) - 1) + 1].end,
              next_search_index |-> j + n]

\* end_time and next_search_index of a confirmed match at word j
MatchEnd(sentence, wd, j) ==
  LET n == Len(Split(sentence))
      m == EndLoop(n, wd, j, j, 0)
  IN  IF m # NoIndex
        THEN [end_word |-> m, end_time |-> wd[m + 1].end,
              next_search_index |-> m + 1]
        ELSE [end_word |-> Min(j + n, Len(wd) - 1),
              end_time |-> wd[Min(j + n, Len(wd) - 1) + 1].end,
              next_search_index |-> j + n]

\* the loop over j: the first confirmed candidate at or after j, or None
RECURSIVE ScanFrom(_, _, _)
ScanFrom(sentence, wd, j) ==
  IF j >= Len(wd)
    THEN NoIndex
    ELSE IF IsCandidate(sentence, wd, j) /\ Confirms(sentence, wd, j)
           THEN j
           ELSE ScanFrom(sentence, wd, j + 1)

\* FallbackStart without the guard on previous_sentences[-1]
FallbackStart_Unguarded(sentence_index, previous_sentences) ==
  IF previous_sentences # <<>>
    THEN [raised |-> None,
          start_time |->
            previous_sentences[Len(previous_sentences)].end_timestamp
              + FallbackGap]
    ELSE [raised |-> "IndexError", start_time |-> 0]

\* FallbackStart reading the previous record's start_timestamp
FallbackStart_FromPrevStart(sentence_index, previous_sentences) ==
  IF sentence_index > 0 /\ previous_sentences # <<>>
    THEN [raised |-> None,
          start_time |->
            previous_sentences[Len(previous_sentences)].start_timestamp
              + FallbackGap]
    ELSE [raised |-> None, start_time |-> 0]

\* previous_sentences[-1]['end_timestamp'] + 0.5, or 0
FallbackStart(sentence_index, previous_sentences) ==
  IF sentence_index > 0 /\ previous_sentences # <<>>
    THEN [raised |-> None,
          start_time |->
            previous_sentences[Len(previous_sentences)].end_timestamp
              + FallbackGap]
    ELSE [raised |-> None, start_time |-> 0]

\* FallbackDuration without the 3 s minimum
FallbackDuration_NoMinimum(sentence) ==
  FallbackPerToken * Len(Split(sentence))

\* max(3, len(sentence.split()) * 0.4)
FallbackDuration(sentence) ==
  Max(FallbackMinDuration, FallbackPerToken * Len(Split(sentence)))

\* FallbackIndex without the bound by the timeline length
FallbackIndex_Unbounded(start_search_index, wd) ==
  start_search_index + FallbackSkip

\* FallbackIndex going back to the first word at the end of the timeline
FallbackIndex_Wraps(start_search_index, wd) ==
  IF start_search_index >= Len(wd)
    THEN 0
    ELSE Min(start_search_index + FallbackSkip, Len(wd))

\* FallbackIndex leaving the cursor where it was
FallbackIndex_NoSkip(start_search_index, wd) ==
  start_search_index

\* min(start_search_index + 50, len(word_data))
FallbackIndex(start_search_index, wd) ==
  Min(start_search_index + FallbackSkip, Len(wd))

FindSentenceTimestamps(sentence, wd, sentence_index, previous_sentences, start_search_index) ==
  LET j == ScanFrom(sentence, wd, start_search_index)
  IN  IF j # NoIndex
        THEN LET e == MatchEnd(sentence, wd, j)
             IN  [raised |-> None, matched |-> TRUE,
                  start_word |-> j, end_word |-> e.end_word,
                  start_time |-> wd[j + 1].start,
                  end_time |-> e.end_time,
                  next_search_index |-> e.next_search_index]
        ELSE LET fb == FallbackStart(sentence_index, previous_sentences)
             IN  [raised |-> fb.raised, matched |-> FALSE,
                  start_word |-> NoIndex, end_word |-> NoIndex,
                  start_time |-> fb.start_time,
                  end_time |-> fb.start_time + FallbackDuration(sentence),
                  next_search_index |->
                    FallbackIndex(start_search_index, wd)]

(***************************************************************************)
(* TimestampMapper.map_sentences_to_timestamps                              *)
(***************************************************************************)
\* MidTimestamp without the halving
MidTimestamp_NoHalving(start_time, end_time) ==
  start_time + (end_time - start_time)

\* mid_timestamp = start_time + (end_time - start_time) / 2
MidTimestamp(start_time, end_time) ==
  start_time + (end_time - start_time) \div 2

\* MappedSentence with sentence ids counted from 1
MappedSentence_IdFromOne(id, sentence, start_time, end_time) ==
  [sentence_id |-> id + 1,
   sentence |-> sentence,
   start_timestamp |-> Round2(start_time),
   end_timestamp |-> Round2(end_time),
   mid_timestamp |-> Round2(MidTimestamp(start_time, end_time))]

MappedSentence(id, sentence, start_time, end_time) ==
  [sentence_id |-> id,
   sentence |-> sentence,
   start_timestamp |-> Round2(start_time),
   end_timestamp |-> Round2(end_time),
   mid_timestamp |-> Round2(MidTimestamp(start_time, end_time))]

(***************************************************************************)
(* validate_timestamps.  The text of an issue is not modelled, only the     *)
(* index of the sentence and the kind of issue; the average is kept as the  *)
(* fraction total_duration / total_sentences.                               *)
(***************************************************************************)
\* lines 176-181: one issue per sentence that starts before the previous ends
RECURSIVE OverlapIssues(_, _)
OverlapIssues(ms, i) ==
  IF i >= Len(ms) THEN <<>>
  ELSE (IF ms[i + 1].start_timestamp < ms[i].end_timestamp
          THEN <<[sentence |-> i, kind |-> "overlapping timestamps"]>>
          ELSE <<>>)
       \o OverlapIssues(ms, i + 1)

\* GapIssues reporting a gap of exactly 30 s too
RECURSIVE GapIssues_FromThirtySeconds(_, _)
GapIssues_FromThirtySeconds(ms, i) ==
  IF i >= Len(ms) THEN <<>>
  ELSE (IF ms[i + 1].start_timestamp - ms[i].end_timestamp >= LargeGap
          THEN <<[sentence |-> i, kind |-> "large gap"]>>
          ELSE <<>>)
       \o GapIssues_FromThirtySeconds(ms, i + 1)

\* lines 184-190: one issue per sentence more than 30 s after the previous
RECURSIVE GapIssues(_, _)
GapIssues(ms, i) ==
  IF i >= Len(ms) THEN <<>>
  ELSE (IF ms[i + 1].start_timestamp - ms[i].end_timestamp > LargeGap
          THEN <<[sentence |-> i, kind |-> "large gap"]>>
          ELSE <<>>)
       \o GapIssues(ms, i + 1)

ValidateTimestamps(ms) ==
  IF ms = <<>>
    THEN [valid |-> FALSE, error |-> "No sentences to validate"]
    ELSE LET issues == OverlapIssues(ms, 1) \o GapIssues(ms, 1)
             span == ms[Len(ms)].end_timestamp - ms[1].start_timestamp
         IN  [valid |-> Len(issues) = 0,
              issues |-> issues,
              total_sentences |-> Len(ms),
              total_duration |-> span,
              average_sentence_length |->
                [num |-> span, den |-> Len(ms)]]

(***************************************************************************)
(* The call, one step per statement group of the method.                    *)
(***************************************************************************)
\* Enter without the test for an empty word list
Enter_NoEmptyCheck ==
  /\ pc = "call"
  /\ dir_exists' = TRUE
  /\ pc' = "loop"
  /\ mapped_sentences' = <<>>
  /\ last_word_index' = 0
  /\ UNCHANGED <<word_data, cleaned_sentences, saved_file, result, raised,
                 calls, first_call>>
  /\ UNCHANGED pipeline_vars
  /\ UNCHANGED collaborator_vars

\* Enter starting the scan where the previous call left the cursor
Enter_KeepsCursor ==
  /\ pc = "call"
  /\ dir_exists' = TRUE
  /\ IF word_data = <<>>
       THEN /\ result' = Present(<<>>)
            /\ pc' = "done"
       ELSE /\ pc' = "loop"
            /\ UNCHANGED result
  /\ mapped_sentences' = <<>>
  /\ UNCHANGED <<word_data, cleaned_sentences, saved_file, raised, calls,
                 first_call, last_word_index>>
  /\ UNCHANGED pipeline_vars
  /\ UNCHANGED collaborator_vars

\* Enter lower-casing the caller's sentence list in place
Enter_LowersSentences ==
  /\ pc = "call"
  /\ dir_exists' = TRUE
  /\ IF word_data = <<>>
       THEN /\ result' = Present(<<>>)
            /\ pc' = "done"
       ELSE /\ pc' = "loop"
            /\ UNCHANGED result
  /\ mapped_sentences' = <<>>
  /\ last_word_index' = 0
  /\ cleaned_sentences' =
       [k \in DOMAIN cleaned_sentences |-> Lower(cleaned_sentences[k])]
  /\ UNCHANGED <<word_data, saved_file, raised, calls, first_call>>
  /\ UNCHANGED pipeline_vars
  /\ UNCHANGED collaborator_vars

\* lines 32-42: mkdir, the empty-timeline return, the loop set-up
Enter ==
  /\ pc = "call"
  /\ dir_exists' = TRUE
  /\ IF word_data = <<>>
       THEN /\ result' = Present(<<>>)
            /\ pc' = "done"
       ELSE /\ pc' = "loop"
            /\ UNCHANGED result
  /\ mapped_sentences' = <<>>
  /\ last_word_index' = 0
  /\ UNCHANGED <<word_data, cleaned_sentences, saved_file, raised, calls,
                 first_call>>
  /\ UNCHANGED pipeline_vars
  /\ UNCHANGED collaborator_vars

\* Iterate trying a sentence again until the scan matches it
Iterate_RetriesUntilMatched ==
  /\ pc = "loop"
  /\ Len(mapped_sentences) < Len(cleaned_sentences)
  /\ \E f \in {FindSentenceTimestamps(cleaned_sentences[Len(mapped_sentences) + 1], word_data, Len(mapped_sentences), mapped_sentences, last_word_index)} :
     LET i == Len(mapped_sentences)
         sentence == cleaned_sentences[i + 1]
     IN  IF f.raised # None
           THEN /\ raised' = f.raised
                /\ pc' = "done"
                /\ UNCHANGED <<mapped_sentences, last_word_index, calls>>
           ELSE IF ~f.matched
           THEN UNCHANGED <<mapped_sentences, last_word_index, calls, pc,
                            raised>>
           ELSE /\ mapped_sentences' =
                     Append(mapped_sentences,
                            MappedSentence(i, sentence, f.start_time,
                                           f.end_time))
                /\ last_word_index' = f.next_search_index
                /\ calls' = Append(calls,
                     [start_search_index |-> last_word_index,
                      next_search_index |-> f.next_search_index,
                      matched |-> f.matched,
                      start_word |-> f.start_word,
                      end_word |-> f.end_word])
                /\ UNCHANGED <<pc, raised>>
  /\ UNCHANGED <<word_data, cleaned_sentences, dir_exists, saved_file, result,
                 first_call>>
  /\ UNCHANGED pipeline_vars
  /\ UNCHANGED collaborator_vars

\* lines 44-61: one iteration of the loop over cleaned_sentences
Iterate ==
  /\ pc = "loop"
  /\ Len(mapped_sentences) < Len(cleaned_sentences)
  /\ \E f \in {FindSentenceTimestamps(cleaned_sentences[Len(mapped_sentences) + 1], word_data, Len(mapped_sentences), mapped_sentences, last_word_index)} :
     LET i == Len(mapped_sentences)
         sentence == cleaned_sentences[i + 1]
     IN  IF f.raised # None
           THEN /\ raised' = f.raised
                /\ pc' = "done"
                /\ UNCHANGED <<mapped_sentences, last_word_index, calls>>
           ELSE /\ mapped_sentences' =
                     Append(mapped_sentences,
                            MappedSentence(i, sentence, f.start_time,
                                           f.end_time))
                /\ last_word_index' = f.next_search_index
                /\ calls' = Append(calls,
                     [start_search_index |-> last_word_index,
                      next_search_index |-> f.next_search_index,
                      matched |-> f.matched,
                      start_word |-> f.start_word,
                      end_word |-> f.end_word])
                /\ UNCHANGED <<pc, raised>>
  /\ UNCHANGED <<word_data, cleaned_sentences, dir_exists, saved_file, result,
                 first_call>>
  /\ UNCHANGED pipeline_vars
  /\ UNCHANGED collaborator_vars

\* Save returning the list without writing the file
Save_NoWrite ==
  /\ pc = "loop"
  /\ Len(mapped_sentences) = Len(cleaned_sentences)
  /\ result' = Present(mapped_sentences)
  /\ pc' = "done"
  /\ UNCHANGED <<word_data, cleaned_sentences, last_word_index,
                 mapped_sentences, dir_exists, raised, calls, first_call,
                 saved_file>>
  /\ UNCHANGED pipeline_vars
  /\ UNCHANGED collaborator_vars

\* lines 63-74: write sentences_with_timestamps.json and return the list
Save ==
  /\ pc = "loop"
  /\ Len(mapped_sentences) = Len(cleaned_sentences)
  /\ saved_file' = Present(mapped_sentences)
  /\ result' = Present(mapped_sentences)
  /\ pc' = "done"
  /\ UNCHANGED <<word_data, cleaned_sentences, last_word_index,
                 mapped_sentences, dir_exists, raised, calls, first_call>>
  /\ UNCHANGED pipeline_vars
  /\ UNCHANGED collaborator_vars

Next == Enter \/ Iterate \/ Save

(***************************************************************************)
(* A further call of map_sentences_to_timestamps on the same object, with   *)
(* any inputs of the family; the variables of the method keep what the      *)
(* previous call left in them until the new call assigns them.              *)
(***************************************************************************)
CallAgainWith(inputs) ==
  /\ pc = "done"
  /\ stage = "none"
  /\ \E inp \in inputs :
       /\ word_data' = inp.words
       /\ cleaned_sentences' = inp.sentences
  /\ first_call' =
       IF first_call.present THEN first_call
       ELSE Present([words |-> word_data, sentences |-> cleaned_sentences,
                     result |-> result, raised |-> raised])
  /\ pc' = "call"
  /\ result' = Absent
  /\ raised' = None
  /\ calls' = <<>>
  /\ UNCHANGED <<last_word_index, mapped_sentences, dir_exists, saved_file>>
  /\ UNCHANGED pipeline_vars
  /\ UNCHANGED collaborator_vars

(***************************************************************************)
(* process_complete_video, one step per phase.  The phases other than the   *)
(* mapping are calls of the collaborators; they are recorded in stage_log.  *)
(***************************************************************************)
\* lines 73-109: skip_transcription, the three files are loaded
LoadExisting ==
  /\ stage = "start"
  /\ options.skip_transcription
  /\ IF ~saved_file.present
       THEN /\ raised' = "FileNotFoundError"
            /\ stage' = "failed"
            /\ UNCHANGED <<mapped_sentences, result, stage_log>>
       ELSE IF ~options.audio_found
       THEN /\ raised' = "FileNotFoundError"
            /\ stage' = "failed"
            /\ UNCHANGED <<mapped_sentences, result, stage_log>>
       ELSE /\ mapped_sentences' = saved_file.value
            /\ result' = Present(saved_file.value)
            /\ stage' = "screenshots"
            /\ stage_log' = Append(stage_log, "load")
            /\ UNCHANGED raised
  /\ UNCHANGED <<word_data, cleaned_sentences, pc, last_word_index,
                 dir_exists, saved_file, calls, first_call, options, summary>>
  /\ UNCHANGED collaborator_vars

\* lines 111-135: locate the audio file, split it, transcribe the chunks
Transcribe ==
  /\ stage = "start"
  /\ ~options.skip_transcription
  /\ IF ~options.audio_found
       THEN /\ raised' = "FileNotFoundError"
            /\ stage' = "failed"
            /\ UNCHANGED stage_log
       ELSE /\ stage' = "clean"
            /\ stage_log' = Append(stage_log, "transcription")
            /\ UNCHANGED raised
  /\ UNCHANGED <<word_data, cleaned_sentences, pc, last_word_index,
                 mapped_sentences, dir_exists, saved_file, result, calls,
                 first_call, options, summary>>
  /\ UNCHANGED collaborator_vars

\* lines 137-139: clean the transcript
Clean ==
  /\ stage = "clean"
  /\ stage' = "map"
  /\ stage_log' = Append(stage_log, "cleaning")
  /\ UNCHANGED <<word_data, cleaned_sentences, pc, last_word_index,
                 mapped_sentences, dir_exists, saved_file, result, raised,
                 calls, first_call, options, summary>>
  /\ UNCHANGED collaborator_vars

\* StartMapping not waiting for the cleaned sentences
StartMapping_BeforeCleaning ==
  /\ stage \in {"clean", "map"}
  /\ pc = "idle"
  /\ pc' = "call"
  /\ stage' = "mapping"
  /\ UNCHANGED <<word_data, cleaned_sentences, last_word_index,
                 mapped_sentences, dir_exists, saved_file, result, raised,
                 calls, first_call, stage_log, options, summary>>
  /\ UNCHANGED collaborator_vars

\* lines 141-145: the call of map_sentences_to_timestamps
StartMapping ==
  /\ stage = "map"
  /\ pc = "idle"
  /\ pc' = "call"
  /\ stage' = "mapping"
  /\ UNCHANGED <<word_data, cleaned_sentences, last_word_index,
                 mapped_sentences, dir_exists, saved_file, result, raised,
                 calls, first_call, stage_log, options, summary>>
  /\ UNCHANGED collaborator_vars

\* line 143: the call returns and its result is bound to mapped_sentences
FinishMapping ==
  /\ stage = "mapping"
  /\ pc = "done"
  /\ IF raised # None
       THEN /\ stage' = "failed"
            /\ UNCHANGED <<mapped_sentences, stage_log>>
       ELSE /\ mapped_sentences' = result.value
            /\ stage' = "screenshots"
            /\ stage_log' = Append(stage_log, "mapping")
  /\ UNCHANGED <<word_data, cleaned_sentences, pc, last_word_index,
                 dir_exists, saved_file, result, raised, calls, first_call,
                 options, summary>>
  /\ UNCHANGED collaborator_vars

\* lines 147-156: screenshot extraction, when enabled
ExtractScreenshots ==
  /\ stage = "screenshots"
  /\ stage' = "pages"
  /\ stage_log' =
       IF options.include_screenshots
         THEN Append(stage_log, "screenshots")
         ELSE stage_log
  /\ UNCHANGED <<word_data, cleaned_sentences, pc, last_word_index,
                 mapped_sentences, dir_exists, saved_file, result, raised,
                 calls, first_call, options, summary>>
  /\ UNCHANGED collaborator_vars

\* lines 157-164: page detection and common elements
DetectPages ==
  /\ stage = "pages"
  /\ stage' = "analysis"
  /\ stage_log' = stage_log \o <<"page_detection", "common_elements">>
  /\ UNCHANGED <<word_data, cleaned_sentences, pc, last_word_index,
                 mapped_sentences, dir_exists, saved_file, result, raised,
                 calls, first_call, options, summary>>
  /\ UNCHANGED collaborator_vars

\* the condition of lines 168 and 208
AnalysisEnabled == options.include_ai_analysis /\ options.include_screenshots

\* lines 166-202: AI analysis, when enabled; the enhanced analysis
\* generates the sitemap itself
Analyze ==
  /\ stage = "analysis"
  /\ stage' = "sitemap"
  /\ stage_log' =
       IF AnalysisEnabled
         THEN IF options.use_enhanced_segment_analysis
                THEN stage_log \o <<"sitemap", "enhanced_analysis">>
                ELSE Append(stage_log, "ai_analysis")
         ELSE stage_log
  /\ UNCHANGED <<word_data, cleaned_sentences, pc, last_word_index,
                 mapped_sentences, dir_exists, saved_file, result, raised,
                 calls, first_call, options, summary>>
  /\ UNCHANGED collaborator_vars

\* lines 204-231: the final sitemap unless the enhanced analysis made it,
\* the legacy format, the copy of the final assets
GenerateSitemap ==
  /\ stage = "sitemap"
  /\ stage' = "validate"
  /\ stage_log' =
       (IF AnalysisEnabled /\ options.use_enhanced_segment_analysis
          THEN stage_log
          ELSE Append(stage_log, "sitemap"))
       \o <<"legacy_format", "copy_assets">>
  /\ UNCHANGED <<word_data, cleaned_sentences, pc, last_word_index,
                 mapped_sentences, dir_exists, saved_file, result, raised,
                 calls, first_call, options, summary>>
  /\ UNCHANGED collaborator_vars

\* Summarize giving up when the timestamps are not valid
Summarize_AbortsWhenInvalid ==
  /\ stage = "validate"
  /\ IF ValidateTimestamps(mapped_sentences).valid
       THEN /\ summary' =
                 Present([sentences_generated |-> Len(cleaned_sentences),
                          sentences_mapped |-> Len(mapped_sentences),
                          validation |-> ValidateTimestamps(mapped_sentences),
                          screenshots_enabled |-> options.include_screenshots,
                          ai_analysis_enabled |-> AnalysisEnabled])
            /\ stage' = "returned"
            /\ stage_log' = stage_log \o <<"validation", "summary">>
       ELSE /\ stage' = "failed"
            /\ stage_log' = Append(stage_log, "validation")
            /\ UNCHANGED summary
  /\ UNCHANGED <<word_data, cleaned_sentences, pc, last_word_index,
                 mapped_sentences, dir_exists, saved_file, result, raised,
                 calls, first_call, options>>
  /\ UNCHANGED collaborator_vars

\* lines 233-300: the validations, the summary, its file, the return
Summarize ==
  /\ stage = "validate"
  /\ summary' =
       Present([sentences_generated |-> Len(cleaned_sentences),
                sentences_mapped |-> Len(mapped_sentences),
                validation |-> ValidateTimestamps(mapped_sentences),
                screenshots_enabled |-> options.include_screenshots,
                ai_analysis_enabled |-> AnalysisEnabled])
  /\ stage' = "returned"
  /\ stage_log' = stage_log \o <<"validation", "summary">>
  /\ UNCHANGED <<word_data, cleaned_sentences, pc, last_word_index,
                 mapped_sentences, dir_exists, saved_file, result, raised,
                 calls, first_call, options>>
  /\ UNCHANGED collaborator_vars

NextPipeline ==
  \/ LoadExisting \/ Transcribe \/ Clean \/ StartMapping
  \/ Enter \/ Iterate \/ Save
  \/ FinishMapping \/ ExtractScreenshots \/ DetectPages \/ Analyze
  \/ GenerateSitemap \/ Summarize

(***************************************************************************)
(* AudioTranscriber.transcribe_chunks of                                    *)
(* src/video_functions/audio_transcriber.py.  chunk_results[i] is what      *)
(* transcribe_chunk returns for chunk i: absent when the chunk failed.  The *)
(* text of the transcription and the files written are not modelled.        *)
(***************************************************************************)
\* lines 96-99: the words of a chunk with their times moved by offset
Shifted(words, offset) ==
  [k \in DOMAIN words |->
     [word |-> words[k].word, start |-> words[k].start + offset,
      end |-> words[k].end + offset]]

\* TranscribeChunk moving every chunk by the duration of the one before
TranscribeChunk_LastDurationOnly ==
  /\ ~transcription.present
  /\ chunk_index < Len(chunk_results)
  /\ chunk_index' = chunk_index + 1
  /\ LET i == chunk_index
         chunk_data == chunk_results[i + 1]
     IN  IF ~chunk_data.present
           THEN UNCHANGED <<all_words, total_duration, chunk_info>>
           ELSE /\ chunk_info' =
                     Append(chunk_info,
                            [chunk_number |-> i + 1,
                             start_time |-> total_duration,
                             duration |-> chunk_data.value.duration,
                             words |-> Len(chunk_data.value.words)])
                /\ all_words' =
                     all_words \o Shifted(chunk_data.value.words,
                                          total_duration)
                /\ total_duration' = chunk_data.value.duration
  /\ UNCHANGED <<chunk_results, transcription>>
  /\ UNCHANGED <<aligner_vars, pipeline_vars, detector_vars, exporter_vars>>

\* lines 70-119: one iteration of the loop over chunk_paths
TranscribeChunk ==
  /\ ~transcription.present
  /\ chunk_index < Len(chunk_results)
  /\ chunk_index' = chunk_index + 1
  /\ LET i == chunk_index
         chunk_data == chunk_results[i + 1]
     IN  IF ~chunk_data.present
           THEN UNCHANGED <<all_words, total_duration, chunk_info>>
           ELSE /\ chunk_info' =
                     Append(chunk_info,
                            [chunk_number |-> i + 1,
                             start_time |-> total_duration,
                             duration |-> chunk_data.value.duration,
                             words |-> Len(chunk_data.value.words)])
                /\ all_words' =
                     all_words \o Shifted(chunk_data.value.words,
                                          total_duration)
                /\ total_duration' =
                     total_duration + chunk_data.value.duration
  /\ UNCHANGED <<chunk_results, transcription>>
  /\ UNCHANGED <<aligner_vars, pipeline_vars, detector_vars, exporter_vars>>

\* lines 121-143: the combined transcription is built and returned
FinishTranscription ==
  /\ ~transcription.present
  /\ chunk_index = Len(chunk_results)
  /\ transcription' =
       Present([words |-> all_words,
                duration |-> total_duration,
                total_chunks |-> Len(chunk_results),
                total_words |-> Len(all_words),
                chunk_info |-> chunk_info])
  /\ UNCHANGED <<chunk_results, chunk_index, all_words, total_duration,
                 chunk_info>>
  /\ UNCHANGED <<aligner_vars, pipeline_vars, detector_vars, exporter_vars>>

NextChunks == TranscribeChunk \/ FinishTranscription

(***************************************************************************)
(* GPTPageDetector._apply_transitions_to_sentences of                       *)
(* src/video_functions/gpt_page_detector.py.  A transition is its           *)
(* sentence_id and its page_name; the description and the URL of a page     *)
(* are not modelled.                                                        *)
(***************************************************************************)
\* list.sort(key=sentence_id): a stable insertion of t into a sorted list
RECURSIVE InsertSorted(_, _)
InsertSorted(sorted, t) ==
  IF sorted = <<>> THEN <<t>>
  ELSE IF sorted[Len(sorted)].sentence_id <= t.sentence_id
         THEN Append(sorted, t)
         ELSE Append(InsertSorted(SubSeq(sorted, 1, Len(sorted) - 1), t),
                     sorted[Len(sorted)])

RECURSIVE SortBySentenceId(_)
SortBySentenceId(ts) ==
  IF ts = <<>> THEN <<>>
  ELSE InsertSorted(SortBySentenceId(SubSeq(ts, 1, Len(ts) - 1)),
                    ts[Len(ts)])

\* [s for s in sentences if start_id <= s['sentence_id'] < end_id]
PageSentences(start_id, end_id) ==
  SelectSeq(sentences,
            LAMBDA x : start_id <= x.sentence_id /\ x.sentence_id < end_id)

\* lines 128-135: sort the transitions and append the end marker
SortTransitions ==
  /\ detector_pc = "call"
  /\ transitions' =
       Append(SortBySentenceId(transitions),
              [sentence_id |-> Len(sentences), page_name |-> "END"])
  /\ page_index' = 0
  /\ pages' = <<>>
  /\ detector_pc' = "loop"
  /\ UNCHANGED sentences
  /\ UNCHANGED <<aligner_vars, pipeline_vars, transcriber_vars,
                 exporter_vars>>

\* lines 137-155: one iteration of the loop over transitions[:-1]
GroupPage ==
  /\ detector_pc = "loop"
  /\ page_index < Len(transitions) - 1
  /\ LET transition == transitions[page_index + 1]
         start_id == transition.sentence_id
         end_id == transitions[page_index + 2].sentence_id
         page_sentences == PageSentences(start_id, end_id)
     IN  pages' =
           IF page_sentences # <<>>
             THEN Append(pages,
                    [page_name |-> transition.page_name,
                     start_sentence |-> start_id,
                     end_sentence |-> end_id - 1,
                     start_timestamp |-> page_sentences[1].start_timestamp,
                     end_timestamp |->
                       page_sentences[Len(page_sentences)].end_timestamp,
                     sentences |-> page_sentences])
             ELSE pages
  /\ page_index' = page_index + 1
  /\ UNCHANGED <<transitions, sentences, detector_pc>>
  /\ UNCHANGED <<aligner_vars, pipeline_vars, transcriber_vars,
                 exporter_vars>>

\* line 157: return pages
ReturnPages ==
  /\ detector_pc = "loop"
  /\ page_index = Len(transitions) - 1
  /\ detector_pc' = "done"
  /\ UNCHANGED <<transitions, sentences, page_index, pages>>
  /\ UNCHANGED <<aligner_vars, pipeline_vars, transcriber_vars,
                 exporter_vars>>

NextPages == SortTransitions \/ GroupPage \/ ReturnPages

(***************************************************************************)
(* DiscourseForumExporter.make_request of src/get_forum_data.py.  A retry   *)
(* is a nested call of make_request; depth counts the nested calls.  Every  *)
(* frame returns what the call it made returned, so the return of the       *)
(* innermost call is the return of the first.  A call nested beyond the     *)
(* interpreter's limit raises RecursionError inside the try of line 55,     *)
(* which the handler of line 74 turns into None.                            *)
(***************************************************************************)
\* the status codes told apart by lines 60-72, and a failure of requests.get
Responses == {"200", "429", "403", "500", "exception"}

\* SendRequest retrying with authentication after every 403
SendRequest_RetriesEvery403 ==
  /\ request_pc = "sending"
  /\ IF depth >= MaxRecursionDepth
       THEN /\ response' = "RecursionError"
            /\ request_pc' = "returned None"
            /\ UNCHANGED <<use_auth, depth, attempts, auth_retries>>
       ELSE \E status \in Responses :
              /\ response' = status
              /\ attempts' = attempts + 1
              /\ IF status = "200"
                   THEN /\ request_pc' = "returned JSON"
                        /\ UNCHANGED <<use_auth, depth, auth_retries>>
                   ELSE IF status = "429"
                   THEN /\ request_pc' = "waiting"
                        /\ UNCHANGED <<use_auth, depth, auth_retries>>
                   ELSE IF status = "403"
                   THEN /\ use_auth' = TRUE
                        /\ depth' = depth + 1
                        /\ auth_retries' = auth_retries + 1
                        /\ UNCHANGED request_pc
                   ELSE /\ request_pc' = "returned None"
                        /\ UNCHANGED <<use_auth, depth, auth_retries>>
  /\ UNCHANGED <<aligner_vars, pipeline_vars, transcriber_vars,
                 detector_vars>>

\* lines 55-76: wait 1 s, send the request, act on the status code
SendRequest ==
  /\ request_pc = "sending"
  /\ IF depth >= MaxRecursionDepth
       THEN /\ response' = "RecursionError"
            /\ request_pc' = "returned None"
            /\ UNCHANGED <<use_auth, depth, attempts, auth_retries>>
       ELSE \E status \in Responses :
              /\ response' = status
              /\ attempts' = attempts + 1
              /\ IF status = "200"
                   THEN /\ request_pc' = "returned JSON"
                        /\ UNCHANGED <<use_auth, depth, auth_retries>>
                   ELSE IF status = "429"
                   THEN /\ request_pc' = "waiting"
                        /\ UNCHANGED <<use_auth, depth, auth_retries>>
                   ELSE IF status = "403" /\ ~use_auth
                   THEN /\ use_auth' = TRUE
                        /\ depth' = depth + 1
                        /\ auth_retries' = auth_retries + 1
                        /\ UNCHANGED request_pc
                   ELSE /\ request_pc' = "returned None"
                        /\ UNCHANGED <<use_auth, depth, auth_retries>>
  /\ UNCHANGED <<aligner_vars, pipeline_vars, transcriber_vars,
                 detector_vars>>

\* lines 62-64: after 60 s the request is made again by a nested call
RetryAfterRateLimit ==
  /\ request_pc = "waiting"
  /\ depth' = depth + 1
  /\ request_pc' = "sending"
  /\ UNCHANGED <<use_auth, attempts, auth_retries, response>>
  /\ UNCHANGED <<aligner_vars, pipeline_vars, transcriber_vars,
                 detector_vars>>

NextRequest == SendRequest \/ RetryAfterRateLimit

(***************************************************************************)
(* Input families.                                                          *)
(***************************************************************************)
SeqsOf(S, lo, hi) == UNION {[1..n -> S] : n \in lo..hi}

\* a well-formed word timeline: word k starts at (k-1)*step and lasts dur
Timeline(texts, step, dur) ==
  [k \in DOMAIN texts |->
     [word |-> texts[k], start |-> (k - 1) * step,
      end |-> (k - 1) * step + dur]]

\* the sentences obtained by cutting a token sequence after the positions
\* of cuts and joining each piece with blanks
RECURSIVE CutFrom(_, _, _, _)
CutFrom(toks, cuts, p, cur) ==
  IF p > Len(toks)
    THEN IF cur = <<>> THEN <<>> ELSE <<Join(cur)>>
    ELSE IF p \in cuts
           THEN <<Join(Append(cur, toks[p]))>>
                  \o CutFrom(toks, cuts, p + 1, <<>>)
           ELSE CutFrom(toks, cuts, p + 1, Append(cur, toks[p]))

Streams(vocab, maxTokens) ==
  {CutFrom(toks, cuts, 1, <<>>) :
     toks \in SeqsOf(vocab, 0, maxTokens), cuts \in SUBSET (1..(maxTokens - 1))}
  \cup {<< <<>> >>}

RichWordVocab == {<<"a">>, <<"a", "b">>, <<"B", ".">>}
RichTokenVocab == {<<"a">>, <<"a", "b">>, <<"B">>, <<"b", ".">>}
RichTempos == {<<4, 12>>, <<400, 396>>}

DeepWordVocab == {<<"a">>, <<"b">>}
DeepTokenVocab == {<<"a">>, <<"b">>}
DeepTempos == {<<1000, 800>>}

RichInputs ==
  {[words |-> Timeline(texts, tempo[1], tempo[2]), sentences |-> st] :
     texts \in SeqsOf(RichWordVocab, 0, MaxRichWords),
     tempo \in RichTempos,
     st \in Streams(RichTokenVocab, MaxRichTokens)}

DeepInputs ==
  {[words |-> Timeline(texts, tempo[1], tempo[2]), sentences |-> st] :
     texts \in SeqsOf(DeepWordVocab, 0, MaxDeepWords),
     tempo \in DeepTempos,
     st \in Streams(DeepTokenVocab, MaxDeepTokens)}

\* the collaborators before any of them is called
TranscriberIdle ==
  /\ chunk_results = <<>>
  /\ chunk_index = 0
  /\ all_words = <<>>
  /\ total_duration = 0
  /\ chunk_info = <<>>
  /\ transcription = Absent

DetectorIdle ==
  /\ transitions = <<>>
  /\ sentences = <<>>
  /\ detector_pc = "idle"
  /\ page_index = 0
  /\ pages = <<>>

ExporterIdle ==
  /\ request_pc = "idle"
  /\ use_auth = FALSE
  /\ depth = 0
  /\ attempts = 0
  /\ auth_retries = 0
  /\ response = None

CollaboratorsIdle == TranscriberIdle /\ DetectorIdle /\ ExporterIdle

\* the options of a call of the aligner outside the pipeline
NoOptions ==
  [include_screenshots |-> FALSE, include_ai_analysis |-> FALSE,
   use_enhanced_segment_analysis |-> FALSE, skip_transcription |-> FALSE,
   audio_found |-> FALSE]

InitWith(inputs) ==
  /\ \E inp \in inputs :
       /\ word_data = inp.words
       /\ cleaned_sentences = inp.sentences
  /\ pc = "call"
  /\ last_word_index = 0
  /\ mapped_sentences = <<>>
  /\ dir_exists = FALSE
  /\ saved_file = Absent
  /\ result = Absent
  /\ raised = None
  /\ calls = <<>>
  /\ first_call = Absent
  /\ stage = "none"
  /\ stage_log = <<>>
  /\ options = NoOptions
  /\ summary = Absent
  /\ CollaboratorsIdle

\* sentences long enough for 0.4 s per token to exceed the 3 s minimum,
\* before or after a one-word sentence
WordyWordVocab == {<<"a">>}
WordyTempos == {<<400, 396>>}

WordyInputs ==
  {[words |-> Timeline(texts, tempo[1], tempo[2]), sentences |-> st] :
     texts \in SeqsOf(WordyWordVocab, 1, 2),
     tempo \in WordyTempos,
     st \in UNION {{<< <<"a">>, Join([k \in 1..n |-> <<"b">>]) >>,
                    << Join([k \in 1..n |-> <<"b">>]), <<"a">> >>} :
                     n \in MinWordyTokens..MaxWordyTokens}}

Init == InitWith(RichInputs \cup DeepInputs \cup WordyInputs)

Spec == Init /\ [][Next]_vars

\* timelines longer than the fallback skip: a head, at least 50 filler
\* words that occur in no sentence, and a tail
LongWordVocab == {<<"a">>}
LongFiller == <<"z">>
LongTokenVocab == {<<"a">>, <<"q">>}
LongTempos == {<<4, 4>>, <<400, 396>>}

LongInputs ==
  {[words |->
      Timeline(head \o [k \in 1..(FallbackSkip + extra) |-> LongFiller]
                 \o tail, tempo[1], tempo[2]),
    sentences |-> st] :
     head \in SeqsOf(LongWordVocab, 0, MaxLongHead),
     extra \in 0..MaxLongExtra,
     tail \in SeqsOf(LongWordVocab, 0, MaxLongTail),
     tempo \in LongTempos,
     st \in Streams(LongTokenVocab, MaxLongTokens)}

InitLong == InitWith(LongInputs)

SpecLong == InitLong /\ [][Next]_vars

\* the exact-match scenario: the timeline is the words of one sentence, the
\* sentence is those words joined by blanks, with or without a final period
ExactVocab == {<<"a">>, <<"B">>}
ExactTempos == {<<4, 4>>, <<4, 12>>, <<400, 396>>}
ExactPunctuation == {<<>>, <<".">>}

ExactInputs ==
  {[words |-> Timeline(phrase, tempo[1], tempo[2]),
    sentences |-> <<Join(phrase) \o punct>>] :
     phrase \in SeqsOf(ExactVocab, 1, MaxExactTokens),
     tempo \in ExactTempos,
     punct \in ExactPunctuation}

InitExact == InitWith(ExactInputs)

SpecExact == InitExact /\ [][Next]_vars

\* the two-phrase scenario: the timeline spells two distinct phrases one
\* after the other, with word intervals that do not overlap, and the
\* sentences are the two phrases
TwoVocab == {<<"a">>, <<"B">>}
TwoTempos == {<<4, 4>>, <<400, 396>>}

TwoInputs ==
  {[words |-> Timeline(pp[1] \o pp[2], tempo[1], tempo[2]),
    sentences |-> <<Join(pp[1]), Join(pp[2])>>] :
     pp \in {qq \in SeqsOf(TwoVocab, 1, MaxPhrase)
                      \X SeqsOf(TwoVocab, 1, MaxPhrase) : qq[1] # qq[2]},
     tempo \in TwoTempos}

InitTwo == InitWith(TwoInputs)

SpecTwo == InitTwo /\ [][Next]_vars

\* repeated calls on one object
RepeatWordVocab == {<<"a">>}
RepeatTempos == {<<400, 396>>}
RepeatSentences ==
  {<<>>, << <<"a">> >>, << <<"b">> >>, << <<"a">>, <<"a">> >>,
   << <<"b">>, <<"a">> >>, << <<"a", " ", "b">> >>}

RepeatInputs ==
  {[words |-> Timeline(texts, tempo[1], tempo[2]), sentences |-> st] :
     texts \in SeqsOf(RepeatWordVocab, 0, MaxRepeatWords),
     tempo \in RepeatTempos,
     st \in RepeatSentences}

CallAgain == CallAgainWith(RepeatInputs)

InitRepeat == InitWith(RepeatInputs)

NextRepeat == Enter \/ Iterate \/ Save \/ CallAgain

SpecRepeat == InitRepeat /\ [][NextRepeat]_vars

\* one call under the scheduling of a synchronous method: a step that can
\* be taken is taken
FairWordVocab == {<<"a">>}
FairTokenVocab == {<<"a">>, <<"b">>}
FairTempos == {<<4, 12>>, <<400, 396>>}

FairInputs ==
  {[words |-> Timeline(texts, tempo[1], tempo[2]), sentences |-> st] :
     texts \in SeqsOf(FairWordVocab, 0, MaxFairWords),
     tempo \in FairTempos,
     st \in Streams(FairTokenVocab, MaxFairTokens)}

InitFair == InitWith(FairInputs)

SpecFair == InitFair /\ [][Next]_vars /\ WF_vars(Next)

\* runs of the pipeline: a fresh run transcribes, cleans and maps; a run
\* with skip_transcription loads what an earlier run saved
PipelineWordVocab == {<<"a">>}
PipelineTokenVocab == {<<"a">>, <<"b">>}
PipelineTempos == {<<4, 12>>, <<400, 396>>}

PipelineInputs ==
  {[words |-> Timeline(texts, tempo[1], tempo[2]), sentences |-> st] :
     texts \in SeqsOf(PipelineWordVocab, 0, MaxPipelineWords),
     tempo \in PipelineTempos,
     st \in Streams(PipelineTokenVocab, MaxPipelineTokens)}

\* saved lists of one or two records: none, the second overlapping the
\* first, touching it, 30 s after it, more than 30 s after it
SavedOutputs ==
  {<<>>, <<MappedSentence(0, <<"a">>, 0, 1000)>>}
  \cup {<<MappedSentence(0, <<"a">>, 0, 1000),
           MappedSentence(1, <<"b">>, s, s + 1000)>> :
          s \in {500, 1000, 1000 + LargeGap, 1000 + LargeGap + Hundredth}}

PipelineOptions ==
  [include_screenshots : BOOLEAN, include_ai_analysis : BOOLEAN,
   use_enhanced_segment_analysis : BOOLEAN, skip_transcription : BOOLEAN,
   audio_found : BOOLEAN]

InitPipeline ==
  /\ options \in PipelineOptions
  /\ IF options.skip_transcription
       THEN /\ word_data = <<>>
            /\ cleaned_sentences = <<>>
            /\ saved_file \in {Absent} \cup {Present(ms) : ms \in SavedOutputs}
       ELSE /\ \E inp \in PipelineInputs :
                 /\ word_data = inp.words
                 /\ cleaned_sentences = inp.sentences
            /\ saved_file = Absent
  /\ pc = "idle"
  /\ last_word_index = 0
  /\ mapped_sentences = <<>>
  /\ dir_exists = TRUE
  /\ result = Absent
  /\ raised = None
  /\ calls = <<>>
  /\ first_call = Absent
  /\ stage = "start"
  /\ stage_log = <<>>
  /\ summary = Absent
  /\ CollaboratorsIdle

SpecPipeline == InitPipeline /\ [][NextPipeline]_vars

\* the aligner and the pipeline when a collaborator is run on its own
AlignerIdle ==
  /\ word_data = <<>>
  /\ cleaned_sentences = <<>>
  /\ pc = "idle"
  /\ last_word_index = 0
  /\ mapped_sentences = <<>>
  /\ dir_exists = TRUE
  /\ saved_file = Absent
  /\ result = Absent
  /\ raised = None
  /\ calls = <<>>
  /\ first_call = Absent
  /\ stage = "none"
  /\ stage_log = <<>>
  /\ options = NoOptions
  /\ summary = Absent

\* what transcribe_chunk can return for one chunk: nothing, or a duration
\* and words with times relative to the chunk, in any order and also
\* beyond the duration
ChunkDurations == {0, 1000}
ChunkStarts == {0, 1000}
ChunkWordLength == 400

ChunkWords ==
  {[k \in DOMAIN starts |->
      [word |-> <<"a">>, start |-> starts[k],
       end |-> starts[k] + ChunkWordLength]] :
     starts \in SeqsOf(ChunkStarts, 0, MaxChunkWords)}

ChunkResults ==
  {Absent} \cup {Present([duration |-> d, words |-> ws]) :
                   d \in ChunkDurations, ws \in ChunkWords}

InitChunks ==
  /\ AlignerIdle
  /\ chunk_results \in SeqsOf(ChunkResults, 0, MaxChunks)
  /\ chunk_index = 0
  /\ all_words = <<>>
  /\ total_duration = 0
  /\ chunk_info = <<>>
  /\ transcription = Absent
  /\ DetectorIdle
  /\ ExporterIdle

SpecChunks == InitChunks /\ [][NextChunks]_vars

\* n aligned sentences with sentence_id 0..n-1 and the transitions of a GPT
\* answer: any sentence ids up to one past the last, in any order
PageStep == 1000
PageDuration == 800

AlignedSentences(n) ==
  [k \in 1..n |->
     [sentence_id |-> k - 1, start_timestamp |-> (k - 1) * PageStep,
      end_timestamp |-> (k - 1) * PageStep + PageDuration]]

TransitionLists(n) ==
  {[k \in DOMAIN ids |-> [sentence_id |-> ids[k], page_name |-> k]] :
     ids \in SeqsOf(0..(n + 1), 0, MaxTransitions)}

InitPages ==
  /\ AlignerIdle
  /\ TranscriberIdle
  /\ ExporterIdle
  /\ \E n \in 0..MaxPageSentences :
       /\ sentences = AlignedSentences(n)
       /\ transitions \in TransitionLists(n)
  /\ detector_pc = "call"
  /\ page_index = 0
  /\ pages = <<>>

SpecPages == InitPages /\ [][NextPages]_vars

\* one call of make_request, with or without use_auth; a step that can be
\* taken is taken (the method is synchronous and its waits are finite)
InitRequest ==
  /\ AlignerIdle
  /\ TranscriberIdle
  /\ DetectorIdle
  /\ request_pc = "sending"
  /\ use_auth \in BOOLEAN
  /\ depth = 0
  /\ attempts = 0
  /\ auth_retries = 0
  /\ response = None

SpecRequest == InitRequest /\ [][NextRequest]_vars /\ WF_vars(NextRequest)

(***************************************************************************)
(* Properties of the search cursor and of the returned list.                *)
(***************************************************************************)
Done == pc = "done"

\* C1: across the successive calls of _find_sentence_timestamps the search
\* cursor never decreases: the cursor returned for a sentence is at least
\* the cursor the sentence was started with.
C1_CursorNonDecreasing ==
  \A k \in DOMAIN calls :
    calls[k].next_search_index >= calls[k].start_search_index

\* C2: for a non-empty word timeline the call returns one record per input
\* sentence, in input order, with sentence_id i and the i-th sentence.
C2_OneRecordPerSentence ==
  (Done /\ word_data # <<>>) =>
    /\ result.present
    /\ Len(result.value) = Len(cleaned_sentences)
    /\ \A p \in DOMAIN result.value :
         /\ result.value[p].sentence_id = p - 1
         /\ result.value[p].sentence = cleaned_sentences[p]

C2_Witness ==
  /\ Done
  /\ word_data # <<>>
  /\ result.present
  /\ Len(result.value) >= 2
  /\ result.value[2].sentence # result.value[1].sentence

\* C3 as stated: with an empty word timeline the call raises
\* NoTimingDataError.
C3_RaisesNoTimingDataError ==
  (Done /\ word_data = <<>>) => raised = "NoTimingDataError"

\* C3 amended: with an empty word timeline the call raises nothing, returns
\* the empty list, and writes no sentences file, whatever the sentences are.
C3_EmptyTimelineReturnsEmpty ==
  (Done /\ word_data = <<>>) =>
    /\ raised = None
    /\ result = Present(<<>>)
    /\ ~saved_file.present

C3_Witness ==
  /\ Done
  /\ word_data = <<>>
  /\ Len(cleaned_sentences) >= 2
  /\ result.present

\* C4: a matched sentence starts at or after the cursor it was given, and of
\* two matched sentences the later one starts at a word strictly after the
\* word whose end time was used for the earlier one.
C4_MatchedRangesDisjoint ==
  /\ \A k \in DOMAIN calls :
       calls[k].matched => calls[k].start_word >= calls[k].start_search_index
  /\ \A a, b \in DOMAIN calls :
       (a < b /\ calls[a].matched /\ calls[b].matched)
         => calls[b].start_word > calls[a].end_word

C4_Witness ==
  \E a, b \in DOMAIN calls :
    /\ a < b
    /\ calls[a].matched
    /\ calls[b].matched
    /\ calls[b].start_word = calls[a].end_word + 1

(***************************************************************************)
(* Properties of the produced intervals.                                    *)
(***************************************************************************)
\* C5: the records are produced in non-decreasing time order: each record
\* starts no earlier than the record before it.
C5_StartsNonDecreasing ==
  \A p \in DOMAIN mapped_sentences :
    p > 1 => mapped_sentences[p].start_timestamp
               >= mapped_sentences[p - 1].start_timestamp

\* C6: every record has end >= start, matched or placed by fallback.
C6_EndNotBeforeStart ==
  \A p \in DOMAIN mapped_sentences :
    mapped_sentences[p].end_timestamp >= mapped_sentences[p].start_timestamp

C6_Witness ==
  /\ Done
  /\ \E a, b \in DOMAIN calls :
       /\ calls[a].matched
       /\ calls[a].start_word > 0
       /\ mapped_sentences[a].end_timestamp
            > mapped_sentences[a].start_timestamp
       /\ ~calls[b].matched

\* C7: in every record mid is start + (end - start) / 2 up to the rounding
\* of the three values to hundredths, and start <= mid <= end.
C7_MidIsMidpoint ==
  \A p \in DOMAIN mapped_sentences :
    LET r == mapped_sentences[p]
        twice == 2 * r.mid_timestamp - (r.start_timestamp + r.end_timestamp)
    IN  /\ twice <= 2 * Hundredth
        /\ twice >= 0 - 2 * Hundredth
        /\ r.start_timestamp <= r.mid_timestamp
        /\ r.mid_timestamp <= r.end_timestamp

C7_Witness ==
  \E p \in DOMAIN mapped_sentences :
    LET r == mapped_sentences[p]
    IN  /\ calls[p].matched
        /\ r.start_timestamp < r.end_timestamp
        /\ 2 * r.mid_timestamp # r.start_timestamp + r.end_timestamp

\* no lower-cased token of any sentence equals the normalized text of a word
AllUnmatchable ==
  \A p \in DOMAIN cleaned_sentences :
    \A t \in DOMAIN TestWords(cleaned_sentences[p]) :
      \A j \in 0..(Len(word_data) - 1) :
        WordText(word_data, j) # TestWords(cleaned_sentences[p])[t]

\* C8: with a non-empty timeline and sentences that share no token with any
\* word, nothing is raised and one record per sentence is returned, each
\* placed by the fallback rule (start 0 or previous end + 0.5 s, lasting
\* max(3, 0.4 * tokens) s) with end >= start.
C8_AllFallback ==
  (Done /\ word_data # <<>> /\ AllUnmatchable) =>
    /\ raised = None
    /\ result.present
    /\ Len(result.value) = Len(cleaned_sentences)
    /\ \A p \in DOMAIN result.value :
         LET r == result.value[p]
         IN  /\ ~calls[p].matched
             /\ r.start_timestamp =
                  IF p = 1 THEN 0
                  ELSE result.value[p - 1].end_timestamp + FallbackGap
             /\ r.end_timestamp =
                  r.start_timestamp + FallbackDuration(cleaned_sentences[p])
             /\ r.end_timestamp >= r.start_timestamp

C8_Witness ==
  /\ Done
  /\ word_data # <<>>
  /\ AllUnmatchable
  /\ result.present
  /\ Len(result.value) >= 2
  /\ \E p \in DOMAIN cleaned_sentences : Len(Split(cleaned_sentences[p])) >= 2

\* C9: in the exact-match scenario the single record is matched, starts at
\* the first word's start, ends at or before the last word's end, and has
\* its mid between start and end.
C9_ExactMatch ==
  Done =>
    /\ result.present
    /\ Len(result.value) = 1
    /\ calls[1].matched
    /\ result.value[1].start_timestamp = Round2(word_data[1].start)
    /\ result.value[1].end_timestamp <= Round2(word_data[Len(word_data)].end)
    /\ result.value[1].start_timestamp <= result.value[1].mid_timestamp
    /\ result.value[1].mid_timestamp <= result.value[1].end_timestamp

\* C10: in the two-phrase scenario the second record starts no earlier than
\* the first record ends, and when the second sentence is placed by fallback
\* it starts 0.5 s after the first record's end.
C10_TwoPhrasesDoNotOverlap ==
  Done =>
    /\ result.present
    /\ Len(result.value) = 2
    /\ result.value[2].start_timestamp >= result.value[1].end_timestamp
    /\ ~calls[2].matched =>
         result.value[2].start_timestamp
           = result.value[1].end_timestamp + FallbackGap

C10_Witness ==
  /\ Done
  /\ calls[1].matched
  /\ calls[2].matched
  /\ result.value[2].start_timestamp >= result.value[1].end_timestamp
  /\ result.value[1].end_timestamp > result.value[1].start_timestamp

(***************************************************************************)
(* Properties of the scan, the end selection and the fallback.              *)
(***************************************************************************)
\* the sentence handled by the k-th call of _find_sentence_timestamps
SentenceOf(k) == cleaned_sentences[k]

\* no lower-cased token of the sentence equals the normalized text of a word
SharesNoToken(sentence) ==
  \A t \in DOMAIN TestWords(sentence) :
    \A j \in 0..(Len(word_data) - 1) :
      WordText(word_data, j) # TestWords(sentence)[t]

\* the lower-cased tokens of the sentence are the normalized texts of the
\* words r, r+1, ... of the timeline
ExactRunAt(sentence, r) ==
  LET tw == TestWords(sentence)
  IN  /\ Len(tw) >= 1
      /\ r + Len(tw) <= Len(word_data)
      /\ \A t \in 1..Len(tw) : WordText(word_data, r + t - 1) = tw[t]

\* C11: when a sentence that shares no token with any word is processed at
\* cursor c and the next sentence is an exact run of words starting at or
\* after c + 50, the first is placed by fallback and moves the cursor to
\* c + 50, and the next is matched by the scan from that cursor, at a start
\* word of index >= c + 50.
C11_MatchAfterFallbackSkip ==
  \A k \in DOMAIN calls :
    k >= 2 =>
      LET c == calls[k - 1].start_search_index
      IN  (/\ SharesNoToken(SentenceOf(k - 1))
           /\ \E r \in (c + FallbackSkip)..(Len(word_data) - 1) :
                ExactRunAt(SentenceOf(k), r))
            => /\ ~calls[k - 1].matched
               /\ calls[k - 1].next_search_index = c + FallbackSkip
               /\ calls[k].start_search_index = c + FallbackSkip
               /\ calls[k].matched
               /\ calls[k].start_word >= c + FallbackSkip

C11_Witness ==
  \E k \in DOMAIN calls :
    /\ k >= 2
    /\ calls[k - 1].start_search_index > 0
    /\ SharesNoToken(SentenceOf(k - 1))
    /\ ExactRunAt(SentenceOf(k), 0)
    /\ \E r \in (calls[k - 1].start_search_index + FallbackSkip)
                  ..(Len(word_data) - 1) : ExactRunAt(SentenceOf(k), r)
    /\ calls[k].matched

\* the number of words among j .. j+9 (cut at the timeline end), taken in
\* order, that equal one of the three tokens starting at the current count
RECURSIVE CountFrom(_, _, _, _)
CountFrom(sentence, hi, k, count) ==
  IF k >= hi THEN count
  ELSE LET tw == TestWords(sentence)
           hit == /\ count < Len(tw)
                  /\ \E t \in (count + 1)..Min(count + ConfirmWindow, Len(tw)) :
                       tw[t] = WordText(word_data, k)
       IN  CountFrom(sentence, hi, k + 1, IF hit THEN count + 1 ELSE count)

WindowMatchCount(sentence, j) ==
  CountFrom(sentence, Min(j + ConfirmLookahead, Len(word_data)), j, 0)

\* candidate word j reaches min(3, n) window matches
Accepts(sentence, j) ==
  /\ IsCandidate(sentence, word_data, j)
  /\ WindowMatchCount(sentence, j)
       >= Min(ConfirmThreshold, Len(TestWords(sentence)))

\* C17: a sentence is matched at the first candidate word, from the cursor
\* on, whose window of 10 words holds at least min(3, n) window matches;
\* every earlier candidate has fewer and is rejected; a sentence with no
\* such candidate is not matched.
C17_ConfirmationThreshold ==
  \A k \in DOMAIN calls :
    LET s == SentenceOf(k)
        from == calls[k].start_search_index
    IN  IF calls[k].matched
          THEN /\ Accepts(s, calls[k].start_word)
               /\ \A j \in from..(calls[k].start_word - 1) : ~Accepts(s, j)
          ELSE \A j \in from..(Len(word_data) - 1) : ~Accepts(s, j)

C17_Witness ==
  \E k \in DOMAIN calls :
    \E j \in calls[k].start_search_index..(Len(word_data) - 1) :
      /\ ~calls[k].matched
      /\ IsCandidate(SentenceOf(k), word_data, j)
      /\ WindowMatchCount(SentenceOf(k), j) >= 1
      /\ j + ConfirmLookahead < Len(word_data)
      /\ \E r \in (j + ConfirmLookahead)..(Len(word_data) - 1) :
           WordText(word_data, r) = WordText(word_data, j)

\* ceil(0.8 * n)
Ceil80(n) == (4 * n + 4) \div 5

\* C18: on a match at word j of a sentence of n tokens the end is the end
\* time of word j + ceil(0.8 n) when that word lies in the window of n + 10
\* words cut at the timeline end, and of the last word of the window
\* otherwise.
C18_EndSelection ==
  \A k \in DOMAIN calls :
    calls[k].matched =>
      LET n == Len(Split(SentenceOf(k)))
          j == calls[k].start_word
          last == Min(j + n + EndLookahead, Len(word_data)) - 1
          e == IF j + Ceil80(n) <= last THEN j + Ceil80(n) ELSE last
      IN  /\ calls[k].end_word = e
          /\ mapped_sentences[k].end_timestamp = Round2(word_data[e + 1].end)

C18_Witness ==
  \E k \in DOMAIN calls :
    /\ calls[k].matched
    /\ Len(Split(SentenceOf(k))) = 5
    /\ calls[k].end_word = calls[k].start_word + 4
    /\ calls[k].end_word < Len(word_data) - 1

\* C19: after every match the cursor is one past the word whose end time was
\* used, and so never exceeds len(word_data).
C19_CursorOnePastEndWord ==
  \A k \in DOMAIN calls :
    calls[k].matched =>
      /\ calls[k].next_search_index = calls[k].end_word + 1
      /\ calls[k].next_search_index <= Len(word_data)

\* C20: a sentence that is not matched starts at 0 when it is the first and
\* 0.5 s after the previous record's end otherwise, ends max(3, 0.4 n) s
\* later, lasts at least 3 s, and when not the first starts strictly after
\* the previous record's end.
C20_FallbackPlacement ==
  \A k \in DOMAIN calls :
    ~calls[k].matched =>
      LET r == mapped_sentences[k]
          n == Len(Split(SentenceOf(k)))
      IN  /\ r.start_timestamp =
               IF k = 1 THEN 0
               ELSE mapped_sentences[k - 1].end_timestamp + FallbackGap
          /\ r.end_timestamp =
               r.start_timestamp
                 + Max(FallbackMinDuration, FallbackPerToken * n)
          /\ r.end_timestamp - r.start_timestamp >= FallbackMinDuration
          /\ k > 1 =>
               r.start_timestamp > mapped_sentences[k - 1].end_timestamp

C20_Witness ==
  \E k \in DOMAIN calls :
    /\ k > 1
    /\ ~calls[k].matched
    /\ calls[k - 1].matched
    /\ mapped_sentences[k].end_timestamp - mapped_sentences[k].start_timestamp
         > FallbackMinDuration

(***************************************************************************)
(* Effects, termination and repeatability of the call.                      *)
(***************************************************************************)
\* C12: a call of map_sentences_to_timestamps leaves the file system as it
\* was before the call: no directory is created and no file is written.
C12_FileSystemUntouched ==
  /\ dir_exists = FALSE
  /\ saved_file = Absent

\* C12 (amended): the call creates the output directory and, for a
\* non-empty timeline, has written the returned list to
\* sentences_with_timestamps.json when it returns; for an empty timeline it
\* writes no file.
C12_CallSavesItsResult ==
  (Done /\ raised = None) =>
    /\ dir_exists
    /\ IF word_data = <<>>
         THEN saved_file = Absent
         ELSE /\ result.present
              /\ saved_file = Present(result.value)

C12_Witness ==
  /\ Done
  /\ word_data # <<>>
  /\ saved_file.present
  /\ Len(saved_file.value) >= 2

\* C13: no step of the call changes the word timeline or the sentence list.
C13_InputsReadOnly ==
  [][word_data' = word_data /\ cleaned_sentences' = cleaned_sentences]_vars

C13_Witness ==
  /\ Done
  /\ \E k \in DOMAIN calls : calls[k].matched
  /\ \E k \in DOMAIN calls : ~calls[k].matched
  /\ \E k \in DOMAIN cleaned_sentences :
       Lower(cleaned_sentences[k]) # cleaned_sentences[k]

\* C14: the call returns, and for a non-empty timeline it has then run one
\* iteration per sentence.
C14_Terminates ==
  <>(Done /\ (word_data # <<>> => Len(calls) = Len(cleaned_sentences)))

C14_Witness ==
  /\ Done
  /\ Len(calls) = Len(cleaned_sentences)
  /\ Len(calls) >= 2
  /\ \E k \in DOMAIN calls : ~calls[k].matched

\* C15: a call with the words and sentences of the first call on the object
\* returns what the first call returned, whatever calls came between.
C15_SameInputsSameResult ==
  (/\ Done
   /\ first_call.present
   /\ first_call.value.words = word_data
   /\ first_call.value.sentences = cleaned_sentences)
    => /\ result = first_call.value.result
       /\ raised = first_call.value.raised

C15_Witness ==
  /\ Done
  /\ first_call.present
  /\ first_call.value.words = word_data
  /\ first_call.value.sentences = cleaned_sentences
  /\ \E k \in DOMAIN calls : calls[k].matched
  /\ last_word_index > 0

(***************************************************************************)
(* The pipeline after the mapping.                                          *)
(***************************************************************************)
\* the phases process_complete_video runs after the mapping, by its options
StagesAfterMapping ==
  (IF options.include_screenshots THEN <<"screenshots">> ELSE <<>>)
  \o <<"page_detection", "common_elements">>
  \o (IF AnalysisEnabled
        THEN IF options.use_enhanced_segment_analysis
               THEN <<"sitemap", "enhanced_analysis">>
               ELSE <<"ai_analysis", "sitemap">>
        ELSE <<"sitemap">>)
  \o <<"legacy_format", "copy_assets", "validation", "summary">>

StagesBeforeScreenshots ==
  IF options.skip_transcription
    THEN <<"load">>
    ELSE <<"transcription", "cleaning", "mapping">>

\* C16: once the mapped sentences are at hand the pipeline never fails; when
\* they are not empty it returns after running the phases its options
\* select, the same for a valid and an invalid list, and the summary holds
\* the validation report of the list.
C16_InvalidTimestampsDoNotStopPipeline ==
  /\ stage = "failed" => stage_log \in {<<>>, <<"transcription", "cleaning">>}
  /\ (stage = "returned" /\ mapped_sentences # <<>>) =>
       /\ stage_log = StagesBeforeScreenshots \o StagesAfterMapping
       /\ summary.present
       /\ summary.value.sentences_mapped = Len(mapped_sentences)
       /\ summary.value.validation = ValidateTimestamps(mapped_sentences)

C16_Witness ==
  /\ stage = "returned"
  /\ ~options.skip_transcription
  /\ options.include_screenshots
  /\ mapped_sentences # <<>>
  /\ ~summary.value.validation.valid
  /\ summary.value.validation.issues # <<>>

(***************************************************************************)
(* Progress of the cursor and the words a sentence takes.                   *)
(***************************************************************************)
\* C21: a sentence placed by fallback at cursor c leaves the cursor at
\* min(c + 50, len(words)), and no later sentence is matched on a word of
\* index below c + 50.
C21_FallbackSkipsFiftyWords ==
  \A k \in DOMAIN calls :
    ~calls[k].matched =>
      LET c == calls[k].start_search_index
      IN  /\ calls[k].next_search_index
               = Min(c + FallbackSkip, Len(word_data))
          /\ \A later \in (k + 1)..Len(calls) :
               calls[later].matched =>
                 /\ calls[later].start_word >= c + FallbackSkip
                 /\ calls[later].end_word >= c + FallbackSkip

C21_Witness ==
  \E k \in DOMAIN calls :
    \E later \in (k + 1)..Len(calls) :
      /\ ~calls[k].matched
      /\ calls[later].matched
      /\ \E j \in calls[k].start_search_index
                    ..(calls[k].start_search_index + FallbackSkip - 1) :
           Accepts(SentenceOf(later), j)

\* C22: a sentence processed with the cursor below len(words) leaves the
\* cursor strictly greater than it found it, matched or not.
C22_CursorAdvances ==
  \A k \in DOMAIN calls :
    calls[k].start_search_index < Len(word_data) =>
      calls[k].next_search_index > calls[k].start_search_index

C22_Witness ==
  /\ \E k \in DOMAIN calls :
       /\ calls[k].matched
       /\ calls[k].start_search_index > 0
       /\ calls[k].next_search_index <= Len(word_data)
  /\ \E k \in DOMAIN calls :
       /\ ~calls[k].matched
       /\ calls[k].start_search_index < Len(word_data)

\* C26: a sentence of n tokens matched at word j leaves the cursor at most
\* at j + n.
C26_ConsumesAtMostItsTokens ==
  \A k \in DOMAIN calls :
    calls[k].matched =>
      calls[k].next_search_index
        <= calls[k].start_word + Len(Split(SentenceOf(k)))

\* C27: the start word of a matched sentence has a normalized text equal to
\* one of the sentence's lower-cased tokens.
C27_StartWordIsSentenceToken ==
  \A k \in DOMAIN calls :
    calls[k].matched =>
      InList(WordText(word_data, calls[k].start_word),
             TestWords(SentenceOf(k)))

\* C28: a sentence processed with the cursor at or beyond len(words) is not
\* matched, leaves the cursor at or beyond len(words), and when it is not
\* the first starts 0.5 s after the previous record's end and ends later
\* than it starts.
C28_EndOfTimelineAbsorbs ==
  \A k \in DOMAIN calls :
    calls[k].start_search_index >= Len(word_data) =>
      /\ ~calls[k].matched
      /\ calls[k].next_search_index >= Len(word_data)
      /\ \A later \in (k + 1)..Len(calls) : ~calls[later].matched
      /\ k > 1 =>
           /\ mapped_sentences[k].start_timestamp
                = mapped_sentences[k - 1].end_timestamp + FallbackGap
           /\ mapped_sentences[k].start_timestamp
                > mapped_sentences[k - 1].end_timestamp
      /\ mapped_sentences[k].end_timestamp
           > mapped_sentences[k].start_timestamp

C28_Witness ==
  \E k \in DOMAIN calls :
    /\ k > 1
    /\ calls[k].start_search_index > Len(word_data)
    /\ \E j \in 0..(Len(word_data) - 1) : Accepts(SentenceOf(k), j)

(***************************************************************************)
(* The order of the pipeline's phases and the validation report.            *)
(***************************************************************************)
\* the phases named by the order of process_complete_video
LinearOrder ==
  <<"transcription", "cleaning", "mapping", "screenshots", "page_detection",
    "sitemap", "validation">>

\* the phase runs under the options
Runs(phase) == phase = "screenshots" => options.include_screenshots

\* C23: without skip_transcription the phases transcription, cleaning,
\* mapping, screenshot extraction, page detection, sitemap generation and
\* validation run once each, in that order, each after all the phases
\* before it have returned; the aligner is only inside its call when
\* transcription and cleaning, and nothing else, have returned.
C23_PhasesInFixedOrder ==
  ~options.skip_transcription =>
    /\ \A p, q \in DOMAIN stage_log : stage_log[p] = stage_log[q] => p = q
    /\ \A p \in DOMAIN stage_log :
         \A b \in DOMAIN LinearOrder :
           stage_log[p] = LinearOrder[b] =>
             \A a \in 1..(b - 1) :
               Runs(LinearOrder[a]) =>
                 \E q \in 1..(p - 1) : stage_log[q] = LinearOrder[a]
    /\ pc \in {"call", "loop"} => stage_log = <<"transcription", "cleaning">>
    /\ pc = "idle" =>
         \A p \in DOMAIN stage_log :
           stage_log[p] \in {"transcription", "cleaning"}
    /\ stage = "returned" =>
         \A b \in DOMAIN LinearOrder :
           Runs(LinearOrder[b]) =>
             \E p \in DOMAIN stage_log : stage_log[p] = LinearOrder[b]

C23_Witness ==
  /\ stage = "returned"
  /\ ~options.skip_transcription
  /\ options.include_screenshots
  /\ AnalysisEnabled
  /\ options.use_enhanced_segment_analysis
  /\ Len(calls) >= 2

\* the issues of one kind reported for the sentence of Python index i
IssuesFor(report, i, kind) ==
  {p \in DOMAIN report.issues :
     report.issues[p] = [sentence |-> i, kind |-> kind]}

\* C24: the report of validate_timestamps on a non-empty list is valid
\* exactly when every sentence starts between 0 and 30 s after the end of
\* the one before, and holds one overlapping issue for each sentence that
\* starts before that end and one large-gap issue for each that starts
\* more than 30 s after it, and nothing else; on an empty list the report
\* is not valid and carries an error.
C24_ValidationReport ==
  stage = "returned" =>
    LET ms == mapped_sentences
        report == summary.value.validation
        gap(i) == ms[i + 1].start_timestamp - ms[i].end_timestamp
    IN  IF ms = <<>>
          THEN /\ ~report.valid
               /\ "error" \in DOMAIN report
          ELSE /\ report.valid
                    <=> \A i \in 1..(Len(ms) - 1) :
                          gap(i) >= 0 /\ gap(i) <= LargeGap
               /\ \A i \in 1..(Len(ms) - 1) :
                    /\ Cardinality(IssuesFor(report, i,
                                             "overlapping timestamps"))
                         = (IF gap(i) < 0 THEN 1 ELSE 0)
                    /\ Cardinality(IssuesFor(report, i, "large gap"))
                         = (IF gap(i) > LargeGap THEN 1 ELSE 0)
               /\ Len(report.issues)
                    = Cardinality({i \in 1..(Len(ms) - 1) :
                                     gap(i) < 0 \/ gap(i) > LargeGap})

C24_Witness ==
  /\ stage = "returned"
  /\ Len(mapped_sentences) = 2
  /\ mapped_sentences[2].start_timestamp - mapped_sentences[1].end_timestamp
       > LargeGap
  /\ ~summary.value.validation.valid

(***************************************************************************)
(* The word timeline built from the chunks.                                 *)
(***************************************************************************)
\* start times do not decrease along the list and no word ends before it
\* starts
WordInvariant(words) ==
  /\ \A k \in 1..(Len(words) - 1) : words[k].start <= words[k + 1].start
  /\ \A k \in DOMAIN words : words[k].end >= words[k].start

\* every transcribed chunk has words in order of start, within its duration
ChunksWellFormed ==
  \A i \in DOMAIN chunk_results :
    chunk_results[i].present =>
      LET c == chunk_results[i].value
      IN  /\ WordInvariant(c.words)
          /\ \A k \in DOMAIN c.words :
               c.words[k].start >= 0 /\ c.words[k].start <= c.duration

\* the summed durations of the transcribed chunks among the first i
RECURSIVE DurationBefore(_)
DurationBefore(i) ==
  IF i = 0 THEN 0
  ELSE DurationBefore(i - 1)
         + (IF chunk_results[i].present THEN chunk_results[i].value.duration
            ELSE 0)

\* the words of the transcribed chunks among the first i, each chunk moved
\* by the summed durations of the transcribed chunks before it
RECURSIVE WordsThrough(_)
WordsThrough(i) ==
  IF i = 0 THEN <<>>
  ELSE WordsThrough(i - 1)
         \o (IF chunk_results[i].present
               THEN Shifted(chunk_results[i].value.words,
                            DurationBefore(i - 1))
               ELSE <<>>)

\* C25: the combined word list is the words of the transcribed chunks, each
\* chunk moved by the summed durations of the transcribed chunks before it;
\* when every transcribed chunk has its words in order of start within
\* [0, duration] and ending no earlier than they start, the combined list
\* has non-decreasing starts and end >= start, failed chunks or not.
C25_CombinedTimelineOrdered ==
  /\ all_words = WordsThrough(chunk_index)
  /\ ChunksWellFormed => WordInvariant(all_words)
  /\ transcription.present =>
       /\ chunk_index = Len(chunk_results)
       /\ transcription.value.words = all_words

C25_Witness ==
  /\ transcription.present
  /\ ChunksWellFormed
  /\ Len(chunk_results) = 3
  /\ chunk_results[1].present
  /\ ~chunk_results[2].present
  /\ chunk_results[3].present
  /\ chunk_results[1].value.duration > 0
  /\ Len(all_words) = 2
  /\ chunk_results[3].value.words[1].start
       < chunk_results[1].value.words[1].start

(***************************************************************************)
(* The pages made from the transitions.                                     *)
(***************************************************************************)
\* the sentences of the pages, page after page
RECURSIVE PagesConcatenated(_)
PagesConcatenated(n) ==
  IF n = 0 THEN <<>>
  ELSE PagesConcatenated(n - 1) \o pages[n].sentences

\* C29: when _apply_transitions_to_sentences returns, every sentence is in
\* exactly one page, the pages are in increasing order of start sentence,
\* and the pages' sentences taken together are the input sentences.
C29_PagesPartitionSentences ==
  detector_pc = "done" =>
    /\ \A k \in DOMAIN sentences :
         Cardinality({p \in DOMAIN pages :
                        \E m \in DOMAIN pages[p].sentences :
                          pages[p].sentences[m] = sentences[k]}) = 1
    /\ \A p \in 1..(Len(pages) - 1) :
         pages[p].start_sentence < pages[p + 1].start_sentence
    /\ PagesConcatenated(Len(pages)) = sentences

(***************************************************************************)
(* The end of make_request.                                                 *)
(***************************************************************************)
Returned == request_pc \in {"returned JSON", "returned None"}

====
